---- MODULE Spec2Model ----
(***************************************************************************)
(* A model of anisocado/misc.py: the grid and map builders (strehl_map,    *)
(* make_psf_grid), the product file assembler (make_simcado_psf_file), the *)
(* field sampler (field_positions_for_simcado_psf) and the strehl          *)
(* interpolator (make_strehl_map_from_coords).                             *)
(*                                                                         *)
(* One behaviour is one call of one of these functions: Init chooses the   *)
(* function and its arguments, the actions are the steps of its body.      *)
(*                                                                         *)
(* Conventions.  numpy arrays are functions over 0..n-1 (2-D arrays are    *)
(* functions of functions), Python lists are sequences (1-based), so the   *)
(* list element at Python position p is seq[p + 1].  A Python value that   *)
(* may be absent (the return value before the return, an instance not yet  *)
(* built) is a sequence of length 0 or 1.                                  *)
(***************************************************************************)
EXTENDS Integers, Sequences, FiniteSets, TLC

VARIABLES
    fn,            \* the function that was called
    pc,            \* position in its body: "call", "loop", "wave", "cube", "done", "raised"
    r, dr,         \* arguments of strehl_map / make_psf_grid
    wavelength,    \* kwargs["wavelength"] of strehl_map / make_psf_grid
    radii, theta,  \* arguments of field_positions_for_simcado_psf
    coords,        \* argument of make_simcado_psf_file / make_strehl_map_from_coords
    wavelengths,   \* argument of make_simcado_psf_file
    header_cards,  \* argument of make_simcado_psf_file
    tie,           \* the tie rule of the nearest-neighbour primitive
    psf,           \* the local `psf`: <<>> or <<instance>>
    heap,          \* the arrays the PSF model has produced, by identity
    x, y,          \* the locals `x` and `y`
    i, j,          \* loop positions
    strlmap,       \* strehl_map's local
    psf_grid,      \* make_psf_grid's local: a list of array identities
    kernel_cube,   \* make_simcado_psf_file's local: a list of array identities
    pri_hdr, cat_hdu, psf_hdus,   \* make_simcado_psf_file's locals
    calls,         \* history: the calls made on the PSF model, in order
    result         \* <<>> until the function returns, then <<value>>

vars == <<fn, pc, r, dr, wavelength, radii, theta, coords, wavelengths,
          header_cards, tie, psf, heap, x, y, i, j, strlmap, psf_grid,
          kernel_cube, pri_hdr, cat_hdu, psf_hdus, calls, result>>

inputs == <<fn, r, dr, wavelength, radii, theta, coords, wavelengths,
            header_cards, tie>>

(***************************************************************************)
(* Bounds of the model.                                                    *)
(***************************************************************************)
MaxR == 2            \* r of the grid builders ranges over -1..MaxR
MaxDr == 3           \* dr of the grid builders ranges over 1..MaxDr
MaxRadii == 2        \* longest radii list
MaxRadius == 2       \* radii range over -1..MaxRadius
ThetaUnit == 40      \* theta ranges over ThetaUnit * (1..MaxThetaK)
MaxThetaK == 10
MaxSamples == 2      \* longest coords list
MaxWaves == 2        \* longest wavelengths list

(***************************************************************************)
(* Program constants.                                                      *)
(***************************************************************************)
FullCircle == 360    \* np.arange(0, 360, theta)
MapStart == -25      \* np.arange(-25, 26)
MapStop == 26
ECatIndex == 1       \* ext0_dict["ECAT"]
EDataIndex == 2      \* ext0_dict["EDATA"], and the i + 2 of WAVEEXT

(***************************************************************************)
(* numpy                                                                   *)
(***************************************************************************)
\* a variant of ArangeLen that counts the stop value in: floor((stop - start) / step) + 1
ArangeLenInclusive(start, stop, step) ==
    IF stop > start THEN ((stop - start) \div step) + 1 ELSE 0

\* len(np.arange(start, stop, step)) for step > 0: ceil((stop - start) / step)
ArangeLen(start, stop, step) ==
    IF stop > start THEN ((stop - start) + (step - 1)) \div step ELSE 0

\* np.arange(start, stop, step)
Arange(start, stop, step) ==
    [k \in 0 .. (ArangeLen(start, stop, step) - 1) |-> start + k * step]

\* len(a): the length of the first axis
NpLen(a) == Cardinality(DOMAIN a)

\* np.mgrid[s1, s2] for two slices <<start, stop, step>>: the pair of 2-D
\* arrays x[i, j] = s1 value i, y[i, j] = s2 value j
Mgrid(s1, s2) ==
    LET a1 == Arange(s1[1], s1[2], s1[3])
        a2 == Arange(s2[1], s2[2], s2[3])
    IN  [x |-> [a \in DOMAIN a1 |-> [b \in DOMAIN a2 |-> a1[a]]],
         y |-> [a \in DOMAIN a1 |-> [b \in DOMAIN a2 |-> a2[b]]]]

\* np.zeros(a.shape) for a 2-D array a
ZerosLike(a) == [p \in DOMAIN a |-> [q \in DOMAIN a[p] |-> 0]]

(***************************************************************************)
(* AnalyticalScaoPsf, the PSF model.  A kernel is identified by the        *)
(* wavelength and the offset it was computed for; a strehl ratio by an     *)
(* injective non-zero code of the same.                                    *)
(***************************************************************************)
Kernel(w, off) == <<w, off[1], off[2]>>

StrehlRatio(p) == p.wave * 10000 + (p.off[1] + 50) * 100 + (p.off[2] + 50)

\* AnalyticalScaoPsf(wavelength=w): a new instance, on axis, whose kernel is
\* stored in a new array h
NewPsf(w, h) == [wave |-> w, off |-> <<0, 0>>, buf |-> h]

\* psf.shift_off_axis(dx, dy): the instance afterwards, its kernel stored in
\* a new array h (which the call returns)
ShiftOffAxis(p, dx, dy, h) == [p EXCEPT !.off = <<dx, dy>>, !.buf = h]

\* psf.kernel: the array that holds the current kernel
KernelOf(p) == p.buf

\* psf.hdu: a new block for the instance
HduOf(p, h) == [header |-> [k \in {} |-> 0], data |-> <<h[p.buf]>>]

\* a record of one call on the model: <<operation, wavelength, dx, dy, succeeded>>
CallNew(w, ok) == <<"new", w, 0, 0, ok>>
CallShift(p, dx, dy, ok) == <<"shift", p.wave, dx, dy, ok>>

(***************************************************************************)
(* strehl_map                                                              *)
(***************************************************************************)
\* x, y = np.mgrid[-r:r+dr:dr, -r:dr+r:dr]
StrehlMapGrid(rr, d) == Mgrid(<<-rr, rr + d, d>>, <<-rr, d + rr, d>>)

\* the loop position after (i, j): for i in range(len(x)): for j in range(len(y))
NextI(a, b, p, q) == IF q + 1 < NpLen(b) THEN p ELSE p + 1
NextJ(a, b, p, q) == IF q + 1 < NpLen(b) THEN q + 1 ELSE 0

\* a variant of InLoop that stops one row early
InLoopShort(a, b, p, q) == p + 1 < NpLen(a) /\ q < NpLen(b)

\* the loop has a cell left to visit
InLoop(a, b, p, q) == p < NpLen(a) /\ q < NpLen(b)

\* a variant of SetCell with the indices exchanged: strlmap[j, i] = ...
SetCellTransposed(m, p, q, v) == [m EXCEPT ![q][p] = v]

\* strlmap[i, j] = psf.strehl_ratio
SetCell(m, p, q, v) == [m EXCEPT ![p][q] = v]

StrehlMapInit ==
    /\ fn = "strehl_map" /\ pc = "call"
    /\ heap' = Append(heap, Kernel(wavelength, <<0, 0>>))
    /\ psf' = <<NewPsf(wavelength, Len(heap) + 1)>>
    /\ calls' = Append(calls, CallNew(wavelength, TRUE))
    /\ x' = StrehlMapGrid(r, dr).x
    /\ y' = StrehlMapGrid(r, dr).y
    /\ strlmap' = ZerosLike(x')
    /\ i' = 0 /\ j' = 0
    /\ pc' = "loop"
    /\ UNCHANGED <<inputs, psf_grid, kernel_cube, pri_hdr, cat_hdu, psf_hdus, result>>

StrehlMapStep ==
    /\ fn = "strehl_map" /\ pc = "loop"
    /\ InLoop(x, y, i, j)
    /\ LET h == Len(heap) + 1
           p == ShiftOffAxis(psf[1], x[i][j], y[i][j], h)
       IN  /\ heap' = Append(heap, Kernel(p.wave, p.off))
           /\ psf' = <<p>>
           /\ calls' = Append(calls, CallShift(psf[1], x[i][j], y[i][j], TRUE))
           /\ strlmap' = SetCell(strlmap, i, j, StrehlRatio(p))
    /\ i' = NextI(x, y, i, j)
    /\ j' = NextJ(x, y, i, j)
    /\ UNCHANGED <<inputs, pc, x, y, psf_grid, kernel_cube, pri_hdr, cat_hdu,
                   psf_hdus, result>>

StrehlMapReturn ==
    /\ fn = "strehl_map" /\ pc = "loop"
    /\ ~InLoop(x, y, i, j)
    /\ result' = <<strlmap>>
    /\ pc' = "done"
    /\ UNCHANGED <<inputs, psf, heap, x, y, i, j, strlmap, psf_grid, kernel_cube,
                   pri_hdr, cat_hdu, psf_hdus, calls>>

(***************************************************************************)
(* make_psf_grid                                                           *)
(***************************************************************************)
\* a variant of PsfGridGrid whose slices stop at r: np.mgrid[-r:r:dr, -r:r:dr]
PsfGridGridExclusive(rr, d) == Mgrid(<<-rr, rr, d>>, <<-rr, rr, d>>)

\* x, y = np.mgrid[-r:r+1:dr, -r:r+1:dr]
PsfGridGrid(rr, d) == Mgrid(<<-rr, rr + 1, d>>, <<-rr, rr + 1, d>>)

\* psf_grid += [psf.kernel]
AddKernel(g, k) == g \o <<k>>

MakePsfGridInit ==
    /\ fn = "make_psf_grid" /\ pc = "call"
    /\ heap' = Append(heap, Kernel(wavelength, <<0, 0>>))
    /\ psf' = <<NewPsf(wavelength, Len(heap) + 1)>>
    /\ calls' = Append(calls, CallNew(wavelength, TRUE))
    /\ x' = PsfGridGrid(r, dr).x
    /\ y' = PsfGridGrid(r, dr).y
    /\ psf_grid' = <<>>
    /\ i' = 0 /\ j' = 0
    /\ pc' = "loop"
    /\ UNCHANGED <<inputs, strlmap, kernel_cube, pri_hdr, cat_hdu, psf_hdus, result>>

MakePsfGridStep ==
    /\ fn = "make_psf_grid" /\ pc = "loop"
    /\ InLoop(x, y, i, j)
    /\ LET h == Len(heap) + 1
           p == ShiftOffAxis(psf[1], x[i][j], y[i][j], h)
       IN  /\ heap' = Append(heap, Kernel(p.wave, p.off))
           /\ psf' = <<p>>
           /\ calls' = Append(calls, CallShift(psf[1], x[i][j], y[i][j], TRUE))
           /\ psf_grid' = AddKernel(psf_grid, KernelOf(p))
    /\ i' = NextI(x, y, i, j)
    /\ j' = NextJ(x, y, i, j)
    /\ UNCHANGED <<inputs, pc, x, y, strlmap, kernel_cube, pri_hdr, cat_hdu,
                   psf_hdus, result>>

MakePsfGridReturn ==
    /\ fn = "make_psf_grid" /\ pc = "loop"
    /\ ~InLoop(x, y, i, j)
    /\ result' = <<psf_grid>>
    /\ pc' = "done"
    /\ UNCHANGED <<inputs, psf, heap, x, y, i, j, strlmap, psf_grid, kernel_cube,
                   pri_hdr, cat_hdu, psf_hdus, calls>>

(***************************************************************************)
(* field_positions_for_simcado_psf.  A coordinate is kept as the           *)
(* expression that computes it: the literal 0 of (0, 0), or                *)
(* r * np.cos(np.deg2rad(ang)) / r * np.sin(np.deg2rad(ang)).              *)
(***************************************************************************)
Num(v) == <<"num", v, 0>>
RCos(rr, ang) == <<"cos", rr, ang>>
RSin(rr, ang) == <<"sin", rr, ang>>

\* radii = [1, 2, 4, 8, 16, 32]
DefaultRadii == <<1, 2, 4, 8, 16, 32>>

\* for ang in np.arange(0, 360, theta): the angles of one ring
RingAngles(th) == Arange(0, FullCircle, th)

\* the points the inner loop adds for the radius rr, in order
RingPoints(rr, th) ==
    LET a == RingAngles(th)
    IN  [k \in 1 .. NpLen(a) |-> <<RCos(rr, a[k - 1]), RSin(rr, a[k - 1])>>]

\* if radii is None: radii = [1, 2, 4, 8, 16, 32]
RadiiOrDefault(rad) == IF Len(rad) = 0 THEN DefaultRadii ELSE rad[1]

RECURSIVE FieldLoop(_, _, _)
\* for r in radii: coords += the ring of r
FieldLoop(cs, rad, th) ==
    IF Len(rad) = 0 THEN cs
    ELSE FieldLoop(cs \o RingPoints(Head(rad), th), Tail(rad), th)

\* field_positions_for_simcado_psf(radii, theta); rad is <<>> for None
FieldPositions(rad, th) ==
    FieldLoop(<< <<Num(0), Num(0)>> >>, RadiiOrDefault(rad), th)

FieldPositionsCall ==
    /\ fn = "field_positions_for_simcado_psf" /\ pc = "call"
    /\ result' = <<FieldPositions(radii, theta)>>
    /\ pc' = "done"
    /\ UNCHANGED <<inputs, psf, heap, x, y, i, j, strlmap, psf_grid, kernel_cube,
                   pri_hdr, cat_hdu, psf_hdus, calls>>

(***************************************************************************)
(* make_strehl_map_from_coords                                             *)
(***************************************************************************)
\* a variant of CoordsT with the two columns exchanged
CoordsTSwapped(cs) ==
    [x |-> [k \in 0 .. (Len(cs) - 1) |-> cs[k + 1][2]],
     y |-> [k \in 0 .. (Len(cs) - 1) |-> cs[k + 1][1]]]

\* x, y = np.array(coords).T for a non-empty list of pairs
CoordsT(cs) ==
    [x |-> [k \in 0 .. (Len(cs) - 1) |-> cs[k + 1][1]],
     y |-> [k \in 0 .. (Len(cs) - 1) |-> cs[k + 1][2]]]

\* np.array(np.meshgrid(a, b)): element [0] is X[p, q] = a[q], [1] is Y[p, q] = b[p]
Meshgrid(a, b) ==
    [k \in 0 .. 1 |->
        [p \in DOMAIN b |-> [q \in DOMAIN a |-> IF k = 0 THEN a[q] ELSE b[p]]]]

\* arr.T of a 3-D array: t[p, q, k] = arr[k, q, p]
Transpose3(arr) ==
    [p \in DOMAIN arr[0][0] |-> [q \in DOMAIN arr[0] |-> [k \in DOMAIN arr |-> arr[k][q][p]]]]

\* a variant of MapPoints that moves the first axis last without reversing the
\* other two: t[p, q, k] = arr[k, p, q]
MapPointsNoTranspose ==
    LET arr == Meshgrid(Arange(MapStart, MapStop, 1), Arange(MapStart, MapStop, 1))
    IN  [p \in DOMAIN arr[0] |-> [q \in DOMAIN arr[0][0] |-> [k \in DOMAIN arr |-> arr[k][p][q]]]]

\* the query points of the map: np.array(np.meshgrid(...)).T
MapPoints ==
    Transpose3(Meshgrid(Arange(MapStart, MapStop, 1), Arange(MapStart, MapStop, 1)))

Dist2(px, py, q) == (px - q[0]) * (px - q[0]) + (py - q[1]) * (py - q[1])

\* the sample the nearest-neighbour primitive picks for the query point q; the
\* rule for equidistant samples is the primitive's: `t` is that rule
NearestIndex(px, py, q, t) ==
    LET near == {k \in DOMAIN px :
                    \A m \in DOMAIN px : Dist2(px[k], py[k], q) <= Dist2(px[m], py[m], q)}
    IN  IF t = "first" THEN CHOOSE k \in near : \A m \in near : k <= m
        ELSE CHOOSE k \in near : \A m \in near : k >= m

\* griddata((x, y), values, xi, method="nearest")
Griddata(px, py, values, xi, t) ==
    [p \in DOMAIN xi |-> [q \in DOMAIN xi[p] |-> values[NearestIndex(px, py, xi[p][q], t)]]]

\* make_strehl_map_from_coords(coords) for a non-empty coords
MakeStrehlMapFromCoords(cs, t) ==
    LET c == CoordsT(cs)
    IN  Griddata(c.x, c.y, Arange(0, NpLen(c.x), 1), MapPoints, t)

StrehlMapFromCoordsCall ==
    /\ fn = "make_strehl_map_from_coords" /\ pc = "call"
    /\ Len(coords) > 0
    /\ result' = <<MakeStrehlMapFromCoords(coords, tie)>>
    /\ pc' = "done"
    /\ UNCHANGED <<inputs, psf, heap, x, y, i, j, strlmap, psf_grid, kernel_cube,
                   pri_hdr, cat_hdu, psf_hdus, calls>>

\* x, y = np.array(coords).T raises for an empty list (nothing to unpack),
\* in make_strehl_map_from_coords and in make_simcado_psf_file
UnpackRaises ==
    /\ fn \in {"make_strehl_map_from_coords", "make_simcado_psf_file"}
    /\ pc = "call"
    /\ Len(coords) = 0
    /\ pc' = "raised"
    /\ UNCHANGED <<inputs, psf, heap, x, y, i, j, strlmap, psf_grid, kernel_cube,
                   pri_hdr, cat_hdu, psf_hdus, calls, result>>

(***************************************************************************)
(* make_simcado_psf_file.  A dict value is a card [value, comment]: the    *)
(* tuple (value, comment) of the source, a plain value having no comment.  *)
(* A header maps each keyword to its value.                                *)
(***************************************************************************)
Card(v, c) == [value |-> v, comment |-> c]

\* d.update(e) for dicts
DictUpdate(d, e) ==
    [k \in (DOMAIN d) \cup (DOMAIN e) |-> IF k \in DOMAIN e THEN e[k] ELSE d[k]]

\* header.update(d): a keyword of d replaces the header's
HeaderUpdate(h, d) ==
    [k \in (DOMAIN h) \cup (DOMAIN d) |-> IF k \in DOMAIN d THEN d[k].value ELSE h[k]]

\* header[key] = value
HeaderSet(h, key, v) == [k \in (DOMAIN h) \cup {key} |-> IF k = key THEN v ELSE h[k]]

EmptyHeader == [k \in {} |-> 0]

\* a variant of WaveExtKey that numbers the keywords from 1: format(i + 1)
WaveExtKeyFromOne(p) == "WAVEEXT" \o ToString(p + 1)

\* "WAVEEXT{}".format(i + 2)
WaveExtKey(p) == "WAVEEXT" \o ToString(p + EDataIndex)

\* ext0_dict after lines 125-131
Ext0Dict(ws) ==
    LET keys == {"AUTHOR", "DATE_CRE", "DATE_MOD", "SOURCE", "STATUS"}
        d0 == [k \in keys |-> Card("", "")]
        d1 == DictUpdate(d0, [k \in {"ETYPE"} |-> Card("FVPSF", "")])
        d2 == DictUpdate(d1, [k \in {"ECAT"} |->
                  Card(ECatIndex, "The extension containing the catalogue data")])
        d3 == DictUpdate(d2, [k \in {"EDATA"} |->
                  Card(EDataIndex, "The first extension with real data")])
    IN  DictUpdate(d3, [k \in {WaveExtKey(p) : p \in 0 .. (Len(ws) - 1)} |->
                  Card(ws[(CHOOSE p \in 0 .. (Len(ws) - 1) : WaveExtKey(p) = k) + 1], "")])

\* pri_hdr after lines 133-135
PriHdr(ws, cards) ==
    [header |-> HeaderUpdate(HeaderUpdate(EmptyHeader, Ext0Dict(ws)), cards),
     data |-> <<>>]

\* layers = np.arange(len(x))
Layers(ax) == Arange(0, NpLen(ax), 1)

\* cat_hdu after lines 137-141
CatHdu(ax, ay) ==
    LET ext1_dict == [k \in {"NUMPSFS", "CATTYPE", "CUNIT1"} |->
                        IF k = "NUMPSFS" THEN Card(NpLen(ax), "")
                        ELSE IF k = "CATTYPE" THEN Card("table", "")
                        ELSE Card("arcsec", "")]
        tbl == [x |-> ax, y |-> ay, layer |-> Layers(ax)]
    IN  [header |-> HeaderUpdate(EmptyHeader, ext1_dict), data |-> <<tbl>>]

\* np.array(kernel_cube): the arrays' contents, stacked in list order
StackCube(cube, h) == [k \in 0 .. (Len(cube) - 1) |-> h[cube[k + 1]]]

\* psf_hdu after lines 149-152
PsfHdu(p, cube, h, wave) ==
    LET hdu == HduOf(p, h)
    IN  [header |-> HeaderSet(HeaderSet(hdu.header, "WAVE0", wave), "WAVEUNIT", "um"),
         data |-> <<StackCube(cube, h)>>]

\* a variant of HduList that puts the catalog after the data blocks
HduListCatLast(pri, cat, hdus) == <<pri>> \o hdus \o <<cat>>

\* fits.HDUList([pri_hdr, cat_hdu] + psf_hdus)
HduList(pri, cat, hdus) == <<pri, cat>> \o hdus

SimcadoPrepare ==
    /\ fn = "make_simcado_psf_file" /\ pc = "call"
    /\ Len(coords) > 0
    /\ x' = CoordsT(coords).x
    /\ y' = CoordsT(coords).y
    /\ pri_hdr' = <<PriHdr(wavelengths, header_cards)>>
    /\ cat_hdu' = <<CatHdu(x', y')>>
    /\ psf_hdus' = <<>>
    /\ i' = 0
    /\ pc' = "wave"
    /\ UNCHANGED <<inputs, psf, heap, j, strlmap, psf_grid, kernel_cube, calls, result>>

\* psf = AnalyticalScaoPsf(wavelength=wave, **kwargs)
SimcadoNewPsf ==
    /\ fn = "make_simcado_psf_file" /\ pc = "wave"
    /\ i < Len(wavelengths)
    /\ heap' = Append(heap, Kernel(wavelengths[i + 1], <<0, 0>>))
    /\ psf' = <<NewPsf(wavelengths[i + 1], Len(heap) + 1)>>
    /\ calls' = Append(calls, CallNew(wavelengths[i + 1], TRUE))
    /\ kernel_cube' = <<>>
    /\ j' = 0
    /\ pc' = "cube"
    /\ UNCHANGED <<inputs, x, y, i, strlmap, psf_grid, pri_hdr, cat_hdu, psf_hdus, result>>

\* a variant of SimcadoShift that records the kernel the model held before the
\* re-point
SimcadoShiftStale ==
    /\ fn = "make_simcado_psf_file" /\ pc = "cube"
    /\ j < Len(coords)
    /\ LET h == Len(heap) + 1
           dx == coords[j + 1][1]
           dy == coords[j + 1][2]
           p == ShiftOffAxis(psf[1], dx, dy, h)
       IN  /\ heap' = Append(heap, Kernel(p.wave, p.off))
           /\ psf' = <<p>>
           /\ calls' = Append(calls, CallShift(psf[1], dx, dy, TRUE))
           /\ kernel_cube' = Append(kernel_cube, KernelOf(psf[1]))
    /\ j' = j + 1
    /\ UNCHANGED <<inputs, pc, x, y, i, strlmap, psf_grid, pri_hdr, cat_hdu,
                   psf_hdus, result>>

\* one element of [psf.shift_off_axis(dx, dy) for dx, dy in coords]
SimcadoShift ==
    /\ fn = "make_simcado_psf_file" /\ pc = "cube"
    /\ j < Len(coords)
    /\ LET h == Len(heap) + 1
           dx == coords[j + 1][1]
           dy == coords[j + 1][2]
           p == ShiftOffAxis(psf[1], dx, dy, h)
       IN  /\ heap' = Append(heap, Kernel(p.wave, p.off))
           /\ psf' = <<p>>
           /\ calls' = Append(calls, CallShift(psf[1], dx, dy, TRUE))
           /\ kernel_cube' = Append(kernel_cube, h)
    /\ j' = j + 1
    /\ UNCHANGED <<inputs, pc, x, y, i, strlmap, psf_grid, pri_hdr, cat_hdu,
                   psf_hdus, result>>

\* lines 149-154: psf_hdus += [psf_hdu]
SimcadoAppendHdu ==
    /\ fn = "make_simcado_psf_file" /\ pc = "cube"
    /\ j = Len(coords)
    /\ psf_hdus' = psf_hdus \o <<PsfHdu(psf[1], kernel_cube, heap, wavelengths[i + 1])>>
    /\ i' = i + 1
    /\ pc' = "wave"
    /\ UNCHANGED <<inputs, psf, heap, x, y, j, strlmap, psf_grid, kernel_cube,
                   pri_hdr, cat_hdu, calls, result>>

SimcadoReturn ==
    /\ fn = "make_simcado_psf_file" /\ pc = "wave"
    /\ i = Len(wavelengths)
    /\ result' = <<HduList(pri_hdr[1], cat_hdu[1], psf_hdus)>>
    /\ pc' = "done"
    /\ UNCHANGED <<inputs, psf, heap, x, y, i, j, strlmap, psf_grid, kernel_cube,
                   pri_hdr, cat_hdu, psf_hdus, calls>>

(***************************************************************************)
(* Failures of the PSF model.  No function of the module catches them.     *)
(***************************************************************************)
\* the wavelength the next AnalyticalScaoPsf(...) is built for
NextWave ==
    IF fn = "make_simcado_psf_file" THEN wavelengths[i + 1] ELSE wavelength

AboutToConstruct ==
    \/ fn \in {"strehl_map", "make_psf_grid"} /\ pc = "call"
    \/ fn = "make_simcado_psf_file" /\ pc = "wave" /\ i < Len(wavelengths)

\* the offset of the next shift_off_axis(...)
NextOffset ==
    IF fn = "make_simcado_psf_file" THEN coords[j + 1] ELSE <<x[i][j], y[i][j]>>

AboutToShift ==
    \/ fn \in {"strehl_map", "make_psf_grid"} /\ pc = "loop" /\ InLoop(x, y, i, j)
    \/ fn = "make_simcado_psf_file" /\ pc = "cube" /\ j < Len(coords)

PsfNewRaises ==
    /\ AboutToConstruct
    /\ calls' = Append(calls, CallNew(NextWave, FALSE))
    /\ pc' = "raised"
    /\ UNCHANGED <<inputs, psf, heap, x, y, i, j, strlmap, psf_grid, kernel_cube,
                   pri_hdr, cat_hdu, psf_hdus, result>>

\* a variant of PsfShiftRaises that catches the failure and returns the blocks
\* built so far
PsfShiftCaught ==
    /\ AboutToShift
    /\ calls' = Append(calls, CallShift(psf[1], NextOffset[1], NextOffset[2], FALSE))
    /\ pc' = "done"
    /\ result' = IF fn = "make_simcado_psf_file"
                 THEN <<HduList(pri_hdr[1], cat_hdu[1], psf_hdus)>>
                 ELSE <<psf_grid>>
    /\ UNCHANGED <<inputs, psf, heap, x, y, i, j, strlmap, psf_grid, kernel_cube,
                   pri_hdr, cat_hdu, psf_hdus>>

PsfShiftRaises ==
    /\ AboutToShift
    /\ calls' = Append(calls, CallShift(psf[1], NextOffset[1], NextOffset[2], FALSE))
    /\ pc' = "raised"
    /\ UNCHANGED <<inputs, psf, heap, x, y, i, j, strlmap, psf_grid, kernel_cube,
                   pri_hdr, cat_hdu, psf_hdus, result>>

(***************************************************************************)
(* The calls that are made.                                                *)
(***************************************************************************)
GridFns == {"strehl_map", "make_psf_grid"}
Fns == GridFns \cup {"field_positions_for_simcado_psf", "make_strehl_map_from_coords",
                     "make_simcado_psf_file"}

\* (r, dr): small grids, and each builder's defaults
GridArgs(f) ==
    {<<a, b>> : a \in -1 .. MaxR, b \in 1 .. MaxDr}
        \cup (IF f = "strehl_map" THEN {<<25, 3>>} ELSE {<<14, 7>>})

WaveVals == {120, 215}

RECURSIVE SeqsUpTo(_, _)
\* the sequences over S of length at most n
SeqsUpTo(S, n) ==
    IF n = 0 THEN {<<>>}
    ELSE LET shorter == SeqsUpTo(S, n - 1)
         IN  shorter \cup {Append(s, e) : s \in shorter, e \in S}

\* None, or a list of radii
RadiiVals == {<<>>} \cup {<<s>> : s \in SeqsUpTo(-1 .. MaxRadius, MaxRadii)}
ThetaVals == {ThetaUnit * k : k \in 1 .. MaxThetaK}

CoordVals == {<<0, 0>>, <<3, 0>>, <<0, 4>>}
CoordsVals == SeqsUpTo(CoordVals, MaxSamples)
WavelengthsVals == SeqsUpTo(WaveVals, MaxWaves)

HeaderCardsVals ==
    {[k \in {} |-> Card(0, "")],
     [k \in {"AUTHOR"} |-> Card("me", "")],
     [k \in {"ECAT"} |-> Card(7, "")],
     [k \in {"EDATA"} |-> Card(EDataIndex, "")],
     [k \in {"WAVEEXT2", "AUTHOR"} |-> IF k = "AUTHOR" THEN Card("me", "") ELSE Card(999, "")]}

Init ==
    /\ fn \in Fns
    /\ pc = "call"
    /\ \E g \in (IF fn \in GridFns THEN GridArgs(fn) ELSE {<<0, 1>>}) :
            r = g[1] /\ dr = g[2]
    /\ wavelength \in (IF fn \in GridFns THEN WaveVals ELSE {0})
    /\ radii \in (IF fn = "field_positions_for_simcado_psf" THEN RadiiVals ELSE {<<>>})
    /\ theta \in (IF fn = "field_positions_for_simcado_psf" THEN ThetaVals ELSE {45})
    /\ coords \in (IF fn \in {"make_strehl_map_from_coords", "make_simcado_psf_file"}
                   THEN CoordsVals ELSE {<<>>})
    /\ wavelengths \in (IF fn = "make_simcado_psf_file" THEN WavelengthsVals ELSE {<<>>})
    /\ header_cards \in (IF fn = "make_simcado_psf_file" THEN HeaderCardsVals
                         ELSE {[k \in {} |-> Card(0, "")]})
    /\ tie \in (IF fn = "make_strehl_map_from_coords" THEN {"first", "last"} ELSE {"first"})
    /\ psf = <<>> /\ heap = <<>>
    /\ x = <<>> /\ y = <<>>
    /\ i = 0 /\ j = 0
    /\ strlmap = <<>> /\ psf_grid = <<>> /\ kernel_cube = <<>>
    /\ pri_hdr = <<>> /\ cat_hdu = <<>> /\ psf_hdus = <<>>
    /\ calls = <<>>
    /\ result = <<>>

Next ==
    \/ StrehlMapInit \/ StrehlMapStep \/ StrehlMapReturn
    \/ MakePsfGridInit \/ MakePsfGridStep \/ MakePsfGridReturn
    \/ FieldPositionsCall
    \/ StrehlMapFromCoordsCall
    \/ UnpackRaises
    \/ SimcadoPrepare \/ SimcadoNewPsf \/ SimcadoShift \/ SimcadoAppendHdu \/ SimcadoReturn
    \/ PsfNewRaises \/ PsfShiftRaises

Spec == Init /\ [][Next]_vars

(***************************************************************************)
(* Properties.  They are stated from the arguments and the returned value  *)
(* alone, without the operators of the model above.                        *)
(***************************************************************************)
Returned == pc = "done" /\ Len(result) = 1

\* the number of values lo, lo + step, lo + 2 * step, ... below hi
CountBelow(lo, hi, step) == Cardinality({v \in lo .. (hi - 1) : (v - lo) % step = 0})

\* the least n with n * th >= 360, i.e. ceil(360 / th)
CeilCircle(th) == CHOOSE n \in 1 .. 360 : n * th >= 360 /\ (n - 1) * th < 360

\* C1: for a radii list R and theta > 0, field_positions_for_simcado_psf returns
\* (0,0) followed, for each r of R in order, by the ceil(360/theta) points at
\* radius r and angles 0, theta, 2*theta, ... (all below 360), in increasing
\* angle; its length is 1 + |R| * ceil(360/theta), and for R = [] it is [(0,0)].
C1_FieldPositions ==
    (fn = "field_positions_for_simcado_psf" /\ Returned /\ Len(radii) = 1) =>
        LET R == radii[1]
            n == CeilCircle(theta)
            cs == result[1]
        IN  /\ Len(cs) = 1 + Len(R) * n
            /\ cs[1] = <<Num(0), Num(0)>>
            /\ \A a \in 1 .. Len(R) : \A k \in 0 .. (n - 1) :
                  /\ k * theta < 360
                  /\ cs[1 + (a - 1) * n + k + 1]
                        = <<RCos(R[a], k * theta), RSin(R[a], k * theta)>>
            /\ (Len(R) = 0 => cs = << <<Num(0), Num(0)>> >>)

\* two rings, with a theta that does not divide 360, were sampled
C1_Witness ==
    /\ fn = "field_positions_for_simcado_psf" /\ Returned
    /\ Len(radii) = 1 /\ Len(radii[1]) = 2
    /\ 360 % theta # 0 /\ theta < 360
    /\ Len(result[1]) = 1 + 2 * CeilCircle(theta)

\* C2: every data block 2+i of make_simcado_psf_file's result has N layers, and
\* layer j is the kernel of a model built for wavelength i and re-pointed to
\* sample j, the catalog's layer index j being that stacking position.
C2_LayersMatchSamples ==
    (fn = "make_simcado_psf_file" /\ Returned) =>
        LET N == Len(coords)
            blocks == result[1]
        IN  \A w \in 0 .. (Len(wavelengths) - 1) :
                LET cube == blocks[2 + w + 1].data[1]
                IN  /\ DOMAIN cube = 0 .. (N - 1)
                    /\ \A s \in 0 .. (N - 1) :
                          /\ cube[s] = Kernel(wavelengths[w + 1], coords[s + 1])
                          /\ blocks[2].data[1].layer[s] = s

C2_Witness ==
    /\ fn = "make_simcado_psf_file" /\ Returned
    /\ Len(coords) = 2 /\ coords[1] # coords[2]
    /\ Len(wavelengths) = 2 /\ wavelengths[1] # wavelengths[2]
    /\ result[1][4].data[1][1] = Kernel(wavelengths[2], coords[2])

\* C3: the result of make_simcado_psf_file has 2+W blocks: the metadata block,
\* the catalog block, then the data blocks; block 2+i carries WAVE0 = the i-th
\* wavelength (input order, repeats included) and WAVEUNIT = "um".
C3_BlockOrder ==
    (fn = "make_simcado_psf_file" /\ Returned) =>
        LET blocks == result[1]
        IN  /\ Len(blocks) = 2 + Len(wavelengths)
            /\ "ETYPE" \in DOMAIN blocks[1].header /\ Len(blocks[1].data) = 0
            /\ "NUMPSFS" \in DOMAIN blocks[2].header
            /\ \A w \in 0 .. (Len(wavelengths) - 1) :
                  /\ "WAVE0" \in DOMAIN blocks[2 + w + 1].header
                  /\ blocks[2 + w + 1].header["WAVE0"] = wavelengths[w + 1]
                  /\ blocks[2 + w + 1].header["WAVEUNIT"] = "um"

C3_Witness ==
    /\ fn = "make_simcado_psf_file" /\ Returned
    /\ Len(wavelengths) = 2 /\ wavelengths[1] > wavelengths[2]
    /\ Len(result[1]) = 4
    /\ result[1][3].header["WAVE0"] > result[1][4].header["WAVE0"]

\* C4: the catalog block has N rows, row i holds x and y of the i-th sample, its
\* layer column is [0, 1, ..., N-1] and its NUMPSFS is N.
C4_Catalog ==
    (fn = "make_simcado_psf_file" /\ Returned) =>
        LET N == Len(coords)
            cat == result[1][2]
            tbl == cat.data[1]
        IN  /\ DOMAIN tbl.x = 0 .. (N - 1)
            /\ DOMAIN tbl.y = 0 .. (N - 1)
            /\ DOMAIN tbl.layer = 0 .. (N - 1)
            /\ \A k \in 0 .. (N - 1) :
                  /\ tbl.x[k] = coords[k + 1][1]
                  /\ tbl.y[k] = coords[k + 1][2]
                  /\ tbl.layer[k] = k
            /\ cat.header["NUMPSFS"] = N

C4_Witness ==
    /\ fn = "make_simcado_psf_file" /\ Returned
    /\ Len(coords) = 2 /\ coords[1] = <<3, 0>> /\ coords[2] = <<0, 4>>
    /\ result[1][2].data[1].x[0] = 3 /\ result[1][2].data[1].y[1] = 4

\* the keyword WAVEEXT<n>
WaveExtName(n) == "WAVEEXT" \o ToString(n)

\* C5 as stated: block 0 holds every caller-supplied pair and also ECAT = 1,
\* EDATA = 2 and WAVEEXT{2+i} = the i-th wavelength, every WAVEEXT{k} naming the
\* block k whose WAVE0 is that wavelength.
C5_Original ==
    (fn = "make_simcado_psf_file" /\ Returned) =>
        LET blocks == result[1]
            hdr == blocks[1].header
        IN  /\ \A k \in DOMAIN header_cards :
                  k \in DOMAIN hdr /\ hdr[k] = header_cards[k].value
            /\ hdr["ECAT"] = 1
            /\ hdr["EDATA"] = 2
            /\ \A w \in 0 .. (Len(wavelengths) - 1) :
                  hdr[WaveExtName(2 + w)] = wavelengths[w + 1]
            /\ \A n \in 0 .. (Len(blocks) + 2) :
                  WaveExtName(n) \in DOMAIN hdr =>
                      /\ n >= 2 /\ n < Len(blocks)
                      /\ blocks[n + 1].header["WAVE0"] = hdr[WaveExtName(n)]

\* C5, amended: block 0 holds every caller-supplied pair, and each structural
\* field (ECAT = 1, EDATA = 2, WAVEEXT{2+i} = the i-th wavelength, which is the
\* WAVE0 of block 2+i) whose keyword the caller did not supply; a caller-supplied
\* structural keyword holds the caller's value.
C5_Metadata ==
    (fn = "make_simcado_psf_file" /\ Returned) =>
        LET blocks == result[1]
            hdr == blocks[1].header
            given == DOMAIN header_cards
        IN  /\ \A k \in given : k \in DOMAIN hdr /\ hdr[k] = header_cards[k].value
            /\ "ECAT" \in DOMAIN hdr /\ ("ECAT" \notin given => hdr["ECAT"] = 1)
            /\ "EDATA" \in DOMAIN hdr /\ ("EDATA" \notin given => hdr["EDATA"] = 2)
            /\ \A w \in 0 .. (Len(wavelengths) - 1) :
                  /\ WaveExtName(2 + w) \in DOMAIN hdr
                  /\ WaveExtName(2 + w) \notin given =>
                        /\ hdr[WaveExtName(2 + w)] = wavelengths[w + 1]
                        /\ blocks[2 + w + 1].header["WAVE0"] = hdr[WaveExtName(2 + w)]
            /\ \A n \in 0 .. (Len(blocks) + 2) :
                  (WaveExtName(n) \in DOMAIN hdr /\ WaveExtName(n) \notin given) =>
                      n >= 2 /\ n < Len(blocks)

\* caller metadata that supplies WAVEEXT2, with two wavelengths
C5_Witness ==
    /\ fn = "make_simcado_psf_file" /\ Returned
    /\ "WAVEEXT2" \in DOMAIN header_cards /\ "AUTHOR" \in DOMAIN header_cards
    /\ Len(wavelengths) = 2
    /\ result[1][1].header["WAVEEXT2"] = 999
    /\ result[1][1].header["WAVEEXT3"] = wavelengths[2]
    /\ result[1][1].header["AUTHOR"] = "me"

\* C6: make_psf_grid returns one kernel per cell of its square offset grid (25
\* for extents [-14,14], step 7), row-major: element i*n+j is the kernel of the
\* model pointed at (x[i,j], y[i,j]), each stored in an array of its own.
C6_PsfGrid ==
    (fn = "make_psf_grid" /\ Returned) =>
        LET n == CountBelow(-r, r + 1, dr)
            g == result[1]
        IN  /\ Len(g) = n * n
            /\ ((r = 14 /\ dr = 7) => Len(g) = 25)
            /\ \A a \in 0 .. (n - 1) : \A b \in 0 .. (n - 1) :
                  heap[g[a * n + b + 1]] = Kernel(wavelength, <<-r + a * dr, -r + b * dr>>)
            /\ \A p \in 1 .. Len(g) : \A q \in 1 .. Len(g) : p # q => g[p] # g[q]

C6_Witness ==
    /\ fn = "make_psf_grid" /\ Returned
    /\ r = 14 /\ dr = 7
    /\ Len(result[1]) = 25
    /\ heap[result[1][1 * 5 + 3 + 1]] = Kernel(wavelength, <<-7, 7>>)

\* C7: strehl_map returns a 2-D array of the offset grid's dimensions whose cell
\* [i,j] is the strehl ratio of the model re-pointed to (x[i,j], y[i,j]); no cell
\* is left at its initial zero and none holds the strehl of another offset.
C7_StrehlMap ==
    (fn = "strehl_map" /\ Returned) =>
        LET n == CountBelow(-r, r + dr, dr)
            m == result[1]
        IN  /\ DOMAIN m = 0 .. (n - 1)
            /\ DOMAIN m = DOMAIN x
            /\ \A a \in 0 .. (n - 1) :
                  /\ DOMAIN m[a] = 0 .. (n - 1)
                  /\ DOMAIN m[a] = DOMAIN x[a]
                  /\ \A b \in 0 .. (n - 1) :
                        /\ m[a][b] # 0
                        /\ m[a][b] = StrehlRatio([wave |-> wavelength,
                                                  off |-> <<-r + a * dr, -r + b * dr>>])

C7_Witness ==
    /\ fn = "strehl_map" /\ Returned
    /\ r = 25 /\ dr = 3
    /\ DOMAIN result[1] = 0 .. 17
    /\ result[1][17][0] = StrehlRatio([wave |-> wavelength, off |-> <<26, -25>>])

\* the call make_simcado_psf_file makes at position k (from 1) of a run without
\* failure: per wavelength one construction, then one re-point per sample
ExpectedFileCall(k) ==
    LET N == Len(coords)
        w == (k - 1) \div (N + 1)
        s == (k - 1) % (N + 1)
    IN  IF s = 0 THEN <<"new", wavelengths[w + 1], 0, 0>>
        ELSE <<"shift", wavelengths[w + 1], coords[s][1], coords[s][2]>>

\* C8: when a construction or a re-point fails in make_simcado_psf_file the call
\* returns nothing (no list of the blocks built so far), and no step is retried:
\* the failed call is the last one made, and every call is made once, in order.
C8_NoPartialProduct ==
    (fn = "make_simcado_psf_file") =>
        /\ (pc = "raised" => Len(result) = 0)
        /\ (Len(result) = 1 =>
                /\ pc = "done"
                /\ Len(result[1]) = 2 + Len(wavelengths)
                /\ Len(calls) = Len(wavelengths) * (Len(coords) + 1))
        /\ Len(calls) <= Len(wavelengths) * (Len(coords) + 1)
        /\ \A k \in 1 .. Len(calls) :
              /\ <<calls[k][1], calls[k][2], calls[k][3], calls[k][4]>> = ExpectedFileCall(k)
              /\ (~calls[k][5] => k = Len(calls) /\ pc = "raised")

\* a re-point failed after one data block had been built
C8_Witness ==
    /\ fn = "make_simcado_psf_file" /\ pc = "raised"
    /\ Len(psf_hdus) = 1 /\ Len(kernel_cube) = 1
    /\ calls[Len(calls)][1] = "shift" /\ ~calls[Len(calls)][5]
    /\ Len(result) = 0

\* C9: for a non-empty sample set with integer coordinates,
\* make_strehl_map_from_coords returns a 51x51 map whose pixel [i,j] is the index
\* of a sample at minimal Euclidean distance from the offset (-25+i, -25+j).
C9_NearestMap ==
    (fn = "make_strehl_map_from_coords" /\ Returned) =>
        LET N == Len(coords)
            m == result[1]
            d2(k, a, b) == (coords[k][1] - (a - 25)) * (coords[k][1] - (a - 25))
                            + (coords[k][2] - (b - 25)) * (coords[k][2] - (b - 25))
        IN  /\ DOMAIN m = 0 .. 50
            /\ \A a \in 0 .. 50 :
                  /\ DOMAIN m[a] = 0 .. 50
                  /\ \A b \in 0 .. 50 :
                        /\ m[a][b] \in 0 .. (N - 1)
                        /\ \A k \in 1 .. N : d2(m[a][b] + 1, a, b) <= d2(k, a, b)

C9_Witness ==
    /\ fn = "make_strehl_map_from_coords" /\ Returned
    /\ coords = << <<3, 0>>, <<0, 4>> >>
    /\ result[1][28][25] = 0
    /\ result[1][25][29] = 1

\* C10: strehl_map and make_psf_grid construct one model, re-point it once per
\* grid cell in iteration order, and leave it at the last-visited offset (the
\* largest value of both axes); the re-points are as many as the cells.
C10_OneModelRepointed ==
    (fn \in GridFns /\ Returned) =>
        LET n == IF fn = "strehl_map" THEN CountBelow(-r, r + dr, dr)
                 ELSE CountBelow(-r, r + 1, dr)
        IN  /\ Len(calls) = 1 + n * n
            /\ calls[1] = <<"new", wavelength, 0, 0, TRUE>>
            /\ \A k \in 2 .. Len(calls) : calls[k][1] = "shift"
            /\ \A a \in 0 .. (n - 1) : \A b \in 0 .. (n - 1) :
                  calls[1 + a * n + b + 1]
                      = <<"shift", wavelength, -r + a * dr, -r + b * dr, TRUE>>
            /\ Len(psf) = 1
            /\ (n > 0 => psf[1].off = <<-r + (n - 1) * dr, -r + (n - 1) * dr>>)

\* strehl_map(r=2, dr=3): a 3x3 grid, the model left at (4, 4)
C10_Witness ==
    /\ fn = "strehl_map" /\ Returned
    /\ r = 2 /\ dr = 3
    /\ Len(calls) = 10
    /\ psf[1].off = <<4, 4>>

====
